---- MODULE Spec2Model ----
(***************************************************************************)
(* Music Letter: the event log, the caret/layout engine, persistence and   *)
(* import, the inactivity timer and the playback engine of                 *)
(* src/unnamed/part_000, as a state machine.                               *)
(*                                                                         *)
(* Units: times are integer milliseconds (0.08 s = 80), lengths are        *)
(* integer CSS pixels.  JavaScript null / undefined are the values NULL /  *)
(* UNDEFINED.                                                              *)
(***************************************************************************)
EXTENDS Integers, Sequences, FiniteSets, TLC

VARIABLES
    events,            \* state.events: the Event Log
    letters,           \* the '.typed-letter' spans of #textArea, in DOM order
    shown,             \* where each '.typed-letter' span is displayed (left, top)
    caret,             \* nextCaretPosition's static fields: measurer, x, y, lineHeight
    measurer,          \* measureChar.measurer: "none", "attached" or "detached"
    theme,             \* state.theme
    font,              \* the --font-serif family in use
    paletteSel,        \* #paletteSelect.value
    keyToNote,         \* state.keyToNote, as the palette name it was built from
    align,             \* state.align
    width,             \* #textArea's getBoundingClientRect().width, px
    unhandled,         \* a promise was rejected with no handler since the page loaded
    welcomeShown,      \* state.welcomeShown
    storage,           \* localStorage[STORAGE_KEY]: the persisted blob
    loaded,            \* the blob restoreFromStorage read in the last step
    imported,          \* the document handleImportJson read in the last step
    now,               \* the clock (Tone.now(), and the timer clock), ms
    timers,            \* pending setTimeout callbacks of scheduleInactivityPlayback
    scheduledTimeout,  \* state.scheduledTimeout (0: null)
    lastKeyAt,         \* time of the last keystroke that scheduled the timer
    synth,             \* state.synth: 0 is null, k > 0 the k-th synth created
    audioQueue,        \* continuations suspended in ensureAudio's await Tone.start()
    tuning,            \* playbackTuning.minTimeBetweenNotes / maxTimeBetweenNotes
    playhead,          \* state.playhead (the preset's name)
    transport,         \* Tone.Transport: state and position
    parts,             \* the Tone.Part objects scheduled on the transport
    tl,                \* the gsap timeline tweening #ball
    runs,              \* number of playback runs started so far
    fired,             \* synth.triggerAttackRelease calls made by the last step
    runTriggers,       \* per note index: triggerAttackRelease calls of the newest run
    lastOp,            \* the handler that ran in the last step
    resumed,           \* the continuation the last step resumed, if it resumed one
    origin,            \* how the log came about: "typed", "exported" (the import of
                       \* the export of a typed log) or "other"
    toneBuffer,        \* the buffer the offline rendering resolved to
    wav                \* the bytes toneAudioBufferToWav returned for toneBuffer

vars == << events, letters, shown, caret, measurer, theme, font, paletteSel, keyToNote, align,
           welcomeShown, storage, loaded, imported, now, timers,
           scheduledTimeout, lastKeyAt, synth, audioQueue, tuning, playhead,
           transport, parts, tl, runs, fired, runTriggers, lastOp, resumed, origin, width, unhandled,
           toneBuffer, wav >>

sheetVars == << letters, shown, caret, measurer, theme, font, paletteSel,
                keyToNote, align, welcomeShown, storage, loaded, imported, origin >>
editVars  == << events, sheetVars >>
timerVars == << timers, scheduledTimeout, lastKeyAt >>
playVars  == << transport, parts, tl, runs, runTriggers >>
wavVars   == << toneBuffer, wav >>

-----------------------------------------------------------------------------
(* Bounds of the model *)

MaxEvents  == 3      \* longest Event Log explored
Horizon    == 2600   \* the clock stops at this many ms
MaxPending == 2      \* most continuations suspended in ensureAudio at once
MaxRuns    == 2      \* most playback runs started
MaxFrames  == 2      \* most sample frames in a rendered buffer

-----------------------------------------------------------------------------
(* JavaScript values *)

NULL      == "null"
UNDEFINED == "undefined"

\* JavaScript truthiness of a string-or-null value (e.note, char)
Truthy(v) == v \notin {NULL, UNDEFINED, ""}

RECURSIVE SumSeq(_)
SumSeq(s) == IF s = << >> THEN 0 ELSE Head(s) + SumSeq(Tail(s))

Max(a, b) == IF a >= b THEN a ELSE b

-----------------------------------------------------------------------------
(* Themes and palettes *)

themes(t) ==
    CASE t = "midnight" -> [fontFamily |-> "Poppins", soundPalette |-> "minorA"]
      [] t = "pastel"   -> [fontFamily |-> "Playfair Display", soundPalette |-> "pentatonicC"]
      [] t = "classic"  -> [fontFamily |-> "Playfair Display", soundPalette |-> "majorC"]
      [] OTHER          -> [fontFamily |-> "Playfair Display", soundPalette |-> "majorC"]

\* palettes[paletteName] || palettes.majorC.  palettes is an object literal, so
\* the name "constructor" finds the inherited Object function: it is truthy,
\* its length is 1 and it has no element 0.
palettes(p) ==
    CASE p = "minorA"      -> << "A3", "B3", "C4", "D4", "E4", "F4", "G4", "A4" >>
      [] p = "pentatonicC" -> << "C4", "D4", "E4", "G4", "A4", "C5" >>
      [] p = "constructor" -> << UNDEFINED >>
      [] OTHER             -> << "C4", "D4", "E4", "F4", "G4", "A4", "B4", "C5" >>

\* index of a lower-case letter in 'abcdefghijklmnopqrstuvwxyz' (-1: not a letter)
letterIndex(ch) ==
    CASE ch = "a" -> 0 [] ch = "b" -> 1 [] ch = "c" -> 2 [] ch = "i" -> 8
      [] OTHER -> -1

\* String.prototype.toLowerCase on the characters the model types
toLowerCase(ch) ==
    CASE ch = "A" -> "a" [] ch = "B" -> "b" [] OTHER -> ch

\* buildKeyToNote(paletteName)[ch] ?? null
buildKeyToNote(p, ch) ==
    LET pool == palettes(p)
        i    == letterIndex(ch)
        note == IF i < 0 THEN UNDEFINED ELSE pool[(i % Len(pool)) + 1]
    IN  IF note = UNDEFINED THEN NULL ELSE note

-----------------------------------------------------------------------------
(* Font metrics: what the browser measures *)

\* The families the page loads.  Every other family name makes the browser
\* render the generic fallback of the --font-serif list, written "serif".
KnownFamilies == {"Playfair Display", "Poppins", "Pacifico"}

\* the face the browser renders for --font-serif: 'name', serif
ResolveFont(name) == IF name \in KnownFamilies THEN name ELSE "serif"

\* getBoundingClientRect().width of a measurer span showing ch in face f
\* The widths are multiples of 6 (and those of "M" multiples of 10), so that
\* the halves, thirds and six-tenths the layout takes of them are whole pixels.
GlyphWidth(f, ch) ==
    LET wide == CASE f = "Poppins" -> 6 [] f = "serif" -> 12 [] OTHER -> 0
    IN  CASE ch = "a" -> 12 + wide
          [] ch = "b" -> 18 + wide
          [] ch = "A" -> 48 + wide
          [] ch = " " -> 6
          [] ch = "M" -> 30 + 5 * wide
          [] OTHER    -> 12 + wide

normalWidth   == 48   \* the container's width in the page as loaded
rectWidth     == width   \* container.getBoundingClientRect().width
fontSize      == 20   \* parseFloat(getComputedStyle(container).fontSize)
letterSpacing == 6    \* parseFloat(getComputedStyle(container).letterSpacing)

\* fontSize * 1.4
LineHeight == (fontSize * 14) \div 10

\* the fallback line height a freshly created caret measurer starts with
fallbackLineHeight == 36

\* measureChar(container, ch, style); m is the state of measureChar.measurer:
\* a span that is no longer in the document has a bounding rect of width 0
measureChar(m, f, ch) ==
    LET text == IF ch = "\n" THEN "" ELSE IF Truthy(ch) THEN ch ELSE "M"
        base == IF text = "" \/ m = "detached" THEN 0 ELSE GlyphWidth(f, text)
    IN  base + (IF ch = " " THEN 0 ELSE letterSpacing)

-----------------------------------------------------------------------------
(* Caret/Layout Engine *)

RECURSIVE buildLinesNoWrap(_, _, _, _, _, _)
\* variant of the first loop that breaks a line at newlines only
buildLinesNoWrap(m, f, evs, i, currentLine, lines) ==
    IF i > Len(evs) THEN Append(lines, currentLine)
    ELSE IF evs[i].char = "\n"
         THEN buildLinesNoWrap(m, f, evs, i + 1, << >>, Append(lines, currentLine))
         ELSE buildLinesNoWrap(m, f, evs, i + 1,
                               Append(currentLine, measureChar(m, f, evs[i].char)), lines)

RECURSIVE buildLines(_, _, _, _, _, _)
\* layoutEventsAligned, first loop: the glyph widths of each line
buildLines(m, f, evs, i, currentLine, lines) ==
    IF i > Len(evs) THEN Append(lines, currentLine)
    ELSE IF evs[i].char = "\n"
         THEN buildLines(m, f, evs, i + 1, << >>, Append(lines, currentLine))
         ELSE LET w == measureChar(m, f, evs[i].char)
              IN  IF Len(currentLine) > 0 /\ SumSeq(currentLine) + w > rectWidth
                  THEN buildLines(m, f, evs, i + 1, << w >>, Append(lines, currentLine))
                  ELSE buildLines(m, f, evs, i + 1, Append(currentLine, w), lines)

\* layoutEventsAligned, inner loop: the positions of one line's glyphs
linePositions(glyphs, startX, extraGap, y) ==
    [gi \in 1..Len(glyphs) |->
        [x |-> startX + SumSeq(SubSeq(glyphs, 1, gi - 1)) + (gi - 1) * extraGap,
         y |-> y]]

RECURSIVE mapLinesSpreadAll(_, _, _, _)
\* variant of the second loop that spreads the last line as well
mapLinesSpreadAll(lines, li, y, al) ==
    IF li > Len(lines) THEN << >>
    ELSE LET glyphs == lines[li]
             total  == SumSeq(glyphs)
             startX == CASE al = "center" -> Max(0, (rectWidth - total) \div 2)
                         [] al = "right"  -> Max(0, rectWidth - total)
                         [] OTHER         -> 0
             extraGap == IF al = "justify" /\ Len(glyphs) > 1
                         THEN Max(0, (rectWidth - total) \div (Len(glyphs) - 1))
                         ELSE 0
         IN  IF Len(glyphs) = 0
             THEN mapLinesSpreadAll(lines, li + 1, y + LineHeight, al)
             ELSE linePositions(glyphs, startX, extraGap, y)
                    \o mapLinesSpreadAll(lines, li + 1, y + LineHeight, al)

RECURSIVE mapLines(_, _, _, _)
\* layoutEventsAligned, second loop: positions line by line
mapLines(lines, li, y, al) ==
    IF li > Len(lines) THEN << >>
    ELSE LET glyphs == lines[li]
             total  == SumSeq(glyphs)
             isLast == li = Len(lines)
             startX == CASE al = "center" -> Max(0, (rectWidth - total) \div 2)
                         [] al = "right"  -> Max(0, rectWidth - total)
                         [] OTHER         -> 0
             extraGap == IF al = "justify" /\ ~isLast /\ Len(glyphs) > 1
                         THEN Max(0, (rectWidth - total) \div (Len(glyphs) - 1))
                         ELSE 0
         IN  IF Len(glyphs) = 0
             THEN mapLines(lines, li + 1, y + LineHeight, al)
             ELSE linePositions(glyphs, startX, extraGap, y)
                    \o mapLines(lines, li + 1, y + LineHeight, al)

\* layoutEventsAligned(container, events, align).positions
layoutEventsAligned(m, f, evs, al) ==
    mapLines(buildLines(m, f, evs, 1, << >>, << >>), 1, 0, al)

\* measureChar.measurer after a layout pass over evs: the first measured
\* character creates the span inside #textArea
afterLayout(m, evs) ==
    IF m = "none" /\ \E i \in 1..Len(evs) : evs[i].char # "\n" THEN "attached" ELSE m

\* container.innerHTML = '' on measureChar.measurer
afterEmptying(m) == IF m = "none" THEN "none" ELSE "detached"

\* the targets n spans are sent to: span k goes to positions[k]
placeSpans(old, n, positions) ==
    [k \in 1..n |-> IF k <= Len(positions) THEN positions[k]
                    ELSE IF k <= Len(old) THEN old[k] ELSE [x |-> 0, y |-> 0]]

\* reflowExistingLetters(): the spans' targets and measureChar.measurer after it
reflowExistingLetters(m, f, evs, al, old, n) ==
    IF n = 0 THEN [shown |-> << >>, measurer |-> m]
    ELSE [shown |-> placeSpans(old, n, layoutEventsAligned(m, f, evs, al)),
          measurer |-> afterLayout(m, evs)]

\* where the spans created by a rebuild loop are: at the positions recorded
spanPositions(evs) ==
    LET kept == SelectSeq(evs, LAMBDA e : e.char # "\n")
    IN  [k \in 1..Len(kept) |-> [x |-> kept[k].x, y |-> kept[k].y]]

\* updateCursorPosition(container): the --cursor-x / --cursor-y it writes from
\* nextCaretPosition's static fields c
updateCursorPosition(c) == [x |-> c.x, y |-> c.y]

\* nextCaretPosition's static fields before its first call
freshCaret == [measurer |-> FALSE, x |-> 0, y |-> 0, lineHeight |-> 0]

\* nextCaretPosition(container, char): the updated static fields and the result
nextCaretPosition(c, f, char) ==
    LET c1 == IF c.measurer THEN c
              ELSE [measurer |-> TRUE, x |-> 0, y |-> 0,
                    lineHeight |-> fallbackLineHeight]
        text  == IF Truthy(char) /\ char # "\n" /\ char # " " THEN char ELSE "M"
        mRect == GlyphWidth(f, text)
        baseWidth == IF char = " " THEN (mRect * 6) \div 10
                     ELSE IF char = "\n" THEN 0 ELSE mRect
        advance == IF char = "\n" THEN 0
                   ELSE baseWidth + (IF char = " " THEN 0 ELSE letterSpacing)
        wrap == char = "\n" \/ c1.x + advance > rectWidth
        x1 == IF wrap THEN 0 ELSE c1.x
        y1 == IF wrap THEN c1.y + c1.lineHeight ELSE c1.y
    IN  [caret |-> [measurer |-> TRUE,
                    x |-> IF char = "\n" THEN x1 ELSE x1 + advance,
                    y |-> y1,
                    lineHeight |-> LineHeight],
         pos   |-> [x |-> x1, y |-> y1]]

-----------------------------------------------------------------------------
(* Persistence and export *)

\* the value setFont gives --font-serif: 'family', serif
cssFontSerif(f) == "'" \o f \o "', serif"

\* String(v).replace(/['",]/g, '').trim() of a --font-serif value
stripQuotes(v) ==
    CASE v = cssFontSerif("Playfair Display") -> "Playfair Display serif"
      [] v = cssFontSerif("Poppins")          -> "Poppins serif"
      [] v = cssFontSerif("Pacifico")         -> "Pacifico serif"
      [] v = cssFontSerif("serif")            -> "serif serif"
      [] OTHER                                -> v

\* a JSON null among the entries of a document's events
nullEntry == [isNull |-> TRUE]
isNullEntry(e) == DOMAIN e = {"isNull"}

\* placeholder for "no document" in loaded / imported
noDoc == [theme |-> UNDEFINED, font |-> UNDEFINED, palette |-> UNDEFINED,
          events |-> << >>]

\* JSON.parse(JSON.stringify(e)) of one event: strings, numbers and null are
\* kept; a property whose value is undefined is dropped and reads back undefined
jsonEvent(e) ==
    IF isNullEntry(e) THEN e
    ELSE [char |-> e.char, note |-> e.note, time |-> e.time, x |-> e.x, y |-> e.y]

jsonEvents(evs) == [i \in 1..Len(evs) |-> jsonEvent(evs[i])]

\* persistToStorage: the blob written to localStorage
persistToStorage(th, f, pal, evs) ==
    [theme |-> th, font |-> cssFontSerif(f), palette |-> pal,
     events |-> jsonEvents(evs)]

\* exportAsJson: the exported document
exportAsJson(th, f, pal, evs) ==
    [theme |-> th, font |-> stripQuotes(cssFontSerif(f)), palette |-> pal,
     events |-> jsonEvents(evs)]

\* variant of recordEvent that stamps a time before the last event's
recordEventStale(evs, char, note, pos, t) ==
    Append(evs, [char |-> char, note |-> note,
                 time |-> IF Len(evs) = 0 THEN t ELSE evs[Len(evs)].time - 1,
                 x |-> pos.x, y |-> pos.y])

\* variant of recordEvent that puts the new event first
recordEventFirst(evs, char, note, pos, t) ==
    << [char |-> char, note |-> note, time |-> t, x |-> pos.x, y |-> pos.y] >> \o evs

\* recordEvent(char, note, position) at clock value t
recordEvent(evs, char, note, pos, t) ==
    Append(evs, [char |-> char, note |-> note, time |-> t, x |-> pos.x, y |-> pos.y])

RECURSIVE rebuildLoop(_, _, _, _, _, _, _)
\* the loop of restoreFromStorage / handleImportJson over data.events:
\*   pos = nextCaretPosition(container, e.char);
\*   if (e.char !== '\n') createLetterSpan(...); recordEvent(e.char, e.note, pos)
\* Reading e.char of a null entry throws; the enclosing try/catch ends the loop.
rebuildLoop(list, i, f, t, c, evs, spans) ==
    IF i > Len(list) THEN [caret |-> c, events |-> evs, letters |-> spans, threw |-> FALSE]
    ELSE IF isNullEntry(list[i])
         THEN [caret |-> c, events |-> evs, letters |-> spans, threw |-> TRUE]
         ELSE LET e == list[i]
                  r == nextCaretPosition(c, f, e.char)
              IN  rebuildLoop(list, i + 1, f, t, r.caret,
                              recordEvent(evs, e.char, e.note, r.pos, t),
                              IF e.char # "\n" THEN Append(spans, e.char) ELSE spans)

-----------------------------------------------------------------------------
(* Note Scheduler and Path/Playback Animator: the pure parts of playSequence *)

inactivityMs        == 2500   \* state.inactivityMs
minTimeBetweenNotes == 80     \* playbackTuning.minTimeBetweenNotes, 0.08 s
maxTimeBetweenNotes == 2000   \* playbackTuning.maxTimeBetweenNotes, 2.0 s
minSegmentSec       == 120    \* playbackTuning.minSegmentSec, 0.12 s
maxPixelsPerSecond  == 700    \* playbackTuning.maxPixelsPerSecond
marginX             == 32     \* buildMotionPathFromEvents: x margin offset
marginY             == 40     \* buildMotionPathFromEvents: y margin offset

\* playheadPresets[style].speedRatio, in percent
speedRatio(style) ==
    CASE style = "classic" -> 100 [] style = "comet" -> 90 [] style = "star" -> 105
      [] style = "heart" -> 95 [] style = "flame" -> 85 [] style = "kitten" -> 90
      [] style = "diamond" -> 110 [] OTHER -> 100

hasNote(e) == Truthy(e.note)
isPathEvent(e) == Truthy(e.note) /\ e.char # "\n"

\* buildMotionPathFromEvents: the points of the events that carry a note and are
\* no newline (the container is taken to sit at the letter sheet's origin)
buildMotionPathFromEvents(evs) ==
    LET kept == SelectSeq(evs, isPathEvent)
    IN  [i \in 1..Len(kept) |-> [x |-> kept[i].x + marginX, y |-> kept[i].y + marginY]]

\* variant of the second pass that clamps each gap to the previous raw time
smoothLoopRaw(rel, i, tun) ==
    [k \in 1..Len(rel) |->
        IF k < i THEN rel[k]
        ELSE LET prevTime == rel[k - 1].t
                 timeDiff == rel[k].t - prevTime
             IN  [rel[k] EXCEPT !.t = IF timeDiff < tun.min THEN prevTime + tun.min
                                      ELSE IF timeDiff > tun.max THEN prevTime + tun.max
                                      ELSE rel[k].t]]

RECURSIVE smoothLoop(_, _, _)
\* playSequence, second pass: clamp each gap to the previous smoothed time
smoothLoop(rel, i, tun) ==
    IF i > Len(rel) THEN rel
    ELSE LET prevTime == rel[i - 1].t
             timeDiff == rel[i].t - prevTime
             t == IF timeDiff < tun.min THEN prevTime + tun.min
                  ELSE IF timeDiff > tun.max THEN prevTime + tun.max
                  ELSE rel[i].t
         IN  smoothLoop([rel EXCEPT ![i].t = t], i + 1, tun)

\* playSequence: rel, the smoothed schedule of the note-bearing events
smoothedSchedule(evs, tun) ==
    LET noteEvents == SelectSeq(evs, hasNote)
        startTime  == noteEvents[1].time
        rel == [i \in 1..Len(noteEvents) |->
                   [t |-> Max(0, noteEvents[i].time - startTime),
                    note |-> noteEvents[i].note, char |-> noteEvents[i].char]]
    IN  IF Len(noteEvents) = 0 THEN << >> ELSE smoothLoop(rel, 2, tun)

\* Math.hypot(dx, dy), rounded down to a whole pixel
hypot(dx, dy) ==
    LET n == dx * dx + dy * dy
        a == IF dx < 0 THEN -dx ELSE dx
        b == IF dy < 0 THEN -dy ELSE dy
    IN  CHOOSE k \in 0..(a + b) : k * k <= n /\ (k + 1) * (k + 1) > n

\* Durations are kept exact: a segment's duration is segNum / segDen ms, with
\* segDen(style) = 7 * speedRatio (7 from dist * 1000 / 700).
segDen(style) == 7 * speedRatio(style)

\* playSequence: segDur of the hop from point i to point i + 1, as a numerator
\*   segDur = max(minSegmentSec, max(gap, dist / maxPixelsPerSecond)) / speedRatio
segNum(rel, points, i) ==
    LET dist == hypot(points[i + 1].x - points[i].x, points[i + 1].y - points[i].y)
        gap  == rel[i + 1].t - rel[i].t
        speedLimited7 == (dist * 1000 * 7) \div maxPixelsPerSecond
    IN  Max(minSegmentSec * 7, Max(gap * 7, speedLimited7)) * 100

-----------------------------------------------------------------------------
(* Small steps of the handlers *)

audioVars == << synth, audioQueue >>
confVars  == << tuning, playhead >>

\* a synth.triggerAttackRelease call
Trigger(sy, via, run, index, note) ==
    [synth |-> sy, via |-> via, run |-> run, index |-> index, note |-> note]

\* the per-index trigger counts rt after the calls fs, counting those of run
countTriggers(rt, fs, run) ==
    [i \in DOMAIN rt |->
        rt[i] + Cardinality({k \in 1..Len(fs) : fs[k].run = run /\ fs[k].index = i})]

\* playNote(note) / state.synth?.triggerAttackRelease: the calls it makes
playNote(sy, via, run, index, note) ==
    IF Truthy(note) /\ sy # 0 THEN << Trigger(sy, via, run, index, note) >> ELSE << >>

\* variant of clearTimeout that cancels nothing
clearTimeoutKeeps(ts, handle) == ts

\* clearTimeout(handle) on the pending timers
clearTimeout(ts, handle) == {t \in ts : t.id # handle}

\* setTimeout: a handle no pending timer uses
freshTimerId(ts) ==
    CHOOSE i \in 1..(Cardinality(ts) + 1) : \A t \in ts : t.id # i

\* scheduleInactivityPlayback
scheduleInactivityPlayback ==
    LET kept == IF scheduledTimeout # 0 THEN clearTimeout(timers, scheduledTimeout)
                ELSE timers
        id   == freshTimerId(kept)
    IN  /\ timers' = kept \cup {[id |-> id, due |-> now + inactivityMs]}
        /\ scheduledTimeout' = id
        /\ lastKeyAt' = now

\* variant of deleteLastSpans that removes a span whatever the last event is
deleteLastSpansAlways(evs, spans) ==
    IF Len(spans) > 0 THEN SubSeq(spans, 1, Len(spans) - 1) ELSE spans

\* deleteLast: the spans left after removing the last one when the last event
\* is a rendered letter
deleteLastSpans(evs, spans) ==
    IF evs[Len(evs)].char # "\n" /\ Len(spans) > 0
    THEN SubSeq(spans, 1, Len(spans) - 1) ELSE spans

\* state.events.pop()
popEvent(evs) == SubSeq(evs, 1, Len(evs) - 1)

\* handleKeyDown: ev.key -> char ('' when the key types nothing)
keyChar(key) == IF Len(key) = 1 THEN key ELSE IF key = "Enter" THEN "\n" ELSE ""

\* handleKeyDown: number of non-newline events among the first i
letterRank(evs, i) == Len(SelectSeq(SubSeq(evs, 1, i), LAMBDA e : e.char # "\n"))

\* handleKeyDown: the loop that copies the aligned positions into the events
updatePositions(evs, spans, positions) ==
    [i \in 1..Len(evs) |->
        LET k == letterRank(evs, i)
        IN  IF evs[i].char # "\n" /\ k <= Len(spans) /\ k <= Len(positions)
            THEN [evs[i] EXCEPT !.x = positions[k].x, !.y = positions[k].y]
            ELSE evs[i]]

\* what ensureAudio's await suspends: the .then(() => playNote(note)) of a
\* keystroke, or the rest of playSequence, which has seen the log as it was
\* before the await (state.events.length, eventsWithNotes).
\* handled: whether the promise the continuation settles has a rejection handler
keyContinuation(note) ==
    [kind |-> "key", note |-> note, seen |-> << >>, handled |-> FALSE]
playContinuation(evs, handled) ==
    [kind |-> "play", note |-> NULL, seen |-> evs, handled |-> handled]
noContinuation == [kind |-> "none", note |-> NULL, seen |-> << >>, handled |-> FALSE]

\* variant of eventsAfterAwait that keeps to the log seen before the await
eventsAfterAwaitSeen(live, seen) == seen

\* playSequence after the await: buildMotionPathFromEvents and noteEvents read
\* state.events again, as it is then
eventsAfterAwait(live, seen) == live

\* variant of afterSmoothing in which rel shares its objects with the log, so
\* that the second pass writes the smoothed times into the events
afterSmoothingShared(evs, rel) ==
    [i \in 1..Len(evs) |->
        LET k == Len(SelectSeq(SubSeq(evs, 1, i), hasNote))
        IN  IF hasNote(evs[i]) /\ k <= Len(rel)
            THEN [evs[i] EXCEPT !.time = rel[k].t] ELSE evs[i]]

\* playSequence: the log after the two passes; rel holds copies ({ ...e, t })
\* and the second pass writes only rel[i].t
afterSmoothing(evs, rel) == evs

\* no timeline is tweening #ball
noTimeline == [run |-> 0, step |-> 0, n |-> 0, notes |-> << >>, segs |-> << >>,
               den |-> 1]

\* stopPlayback on the transport: stop and rewind when it is started
stopTransport(tr) ==
    IF tr.state = "started" THEN [state |-> "stopped", position |-> -1] ELSE tr

\* playSequence after its await: stopPlayback, build schedule, path and
\* timeline, start the transport
PlayBody(seen) ==
    LET evs    == eventsAfterAwait(events, seen)
        points == buildMotionPathFromEvents(evs)
        rel    == smoothedSchedule(evs, tuning)
        run    == runs + 1
        part   == [run |-> run,
                   entries |-> [i \in 1..Len(rel) |->
                                   [t |-> rel[i].t, note |-> rel[i].note, index |-> i - 1]]]
    IN  IF Len(points) = 0
        THEN /\ tl' = noTimeline
             /\ transport' = stopTransport(transport)
             /\ UNCHANGED << events, parts, runs, runTriggers >>
        ELSE /\ parts' = Append(parts, part)
             /\ events' = afterSmoothing(events, rel)
             /\ tl' = [run |-> run, step |-> 0, n |-> Len(points),
                       notes |-> [i \in 1..Len(rel) |-> rel[i].note],
                       segs |-> [i \in 1..(Len(points) - 1) |-> segNum(rel, points, i)],
                       den |-> segDen(playhead)]
             /\ transport' = [state |-> "started", position |-> -1]
             /\ runs' = run
             /\ runTriggers' = [i \in 0..(Len(rel) - 1) |-> 0]

\* variant of playGuard without the second early return
playGuardAnyEvent == Len(events) > 0

\* playSequence up to its await: the two early returns
playGuard == Len(events) > 0 /\ Len(SelectSeq(events, hasNote)) > 0

\* number of playSequence calls suspended in ensureAudio
pendingPlays == Len(SelectSeq(audioQueue, LAMBDA q : q.kind = "play"))

\* playSequence(): returns early, runs on (the synth exists and the await
\* resumes in the same turn), or suspends in ensureAudio
playSequence(handled) ==
    IF ~playGuard THEN UNCHANGED << events, playVars, audioVars >>
    ELSE IF synth # 0 THEN PlayBody(events) /\ UNCHANGED audioVars
    ELSE /\ audioQueue' = Append(audioQueue, playContinuation(events, handled))
         /\ UNCHANGED << events, synth, playVars >>

-----------------------------------------------------------------------------
(* WAV encoding: a buffer is [numberOfChannels, sampleRate, length, channels],
   a sample is a float held in thousandths, or NaN; the file is a sequence of
   bytes *)

noBuffer == [numberOfChannels |-> 0, sampleRate |-> 0, length |-> 0, channels |-> << >>]

\* the low-order byte first
littleEndian(v, bytes) == [k \in 1..bytes |-> (v \div (256 ^ (k - 1))) % 256]

\* DataView.setUint32 / setUint16 (littleEndian = true): the value modulo 2^w;
\* the sizes and rates written stay below 2^31, where modulo 2^32 changes nothing
setUint32(v) == littleEndian(v, 4)
setUint16(v) == littleEndian(v % (2 ^ 16), 2)

\* DataView.setInt16 of the number num / den: ToInt16 truncates toward zero,
\* wraps modulo 2^16, and takes NaN to 0
setInt16(nan, num, den) ==
    LET truncated == IF num < 0 THEN 0 - ((0 - num) \div den) ELSE num \div den
    IN  littleEndian(IF nan THEN 0 ELSE truncated % (2 ^ 16), 2)

\* writeString: one byte per character code
charCodeAt(ch) ==
    CASE ch = "R" -> 82  [] ch = "I" -> 73  [] ch = "F" -> 70  [] ch = "W" -> 87
      [] ch = "A" -> 65  [] ch = "V" -> 86  [] ch = "E" -> 69  [] ch = "f" -> 102
      [] ch = "m" -> 109 [] ch = "t" -> 116 [] ch = " " -> 32  [] ch = "d" -> 100
      [] ch = "a" -> 97
writeString(str) == [k \in 1..Len(str) |-> charCodeAt(str[k])]

\* Math.max(-1, Math.min(1, sample)), in thousandths; NaN stays NaN
clampSample(s) == IF s.nan THEN s ELSE [s EXCEPT !.milli = Max(-1000, IF s.milli > 1000 THEN 1000 ELSE s.milli)]

\* sample < 0 ? sample * 0x8000 : sample * 0x7FFF, written by setInt16
sampleBytes(s) ==
    LET sample == clampSample(s)
    IN  IF (~sample.nan) /\ sample.milli < 0
        THEN setInt16(sample.nan, sample.milli * 32768, 1000)
        ELSE setInt16(sample.nan, sample.milli * 32767, 1000)

blockAlignMono(numChannels) == 2

\* view.setUint16(32, numChannels * 2, true)
blockAlign(numChannels) == numChannels * 2

\* the 44 bytes written before the samples
wavHeader(numChannels, length, sampleRate) ==
    writeString(<< "R", "I", "F", "F" >>)
      \o setUint32(36 + length * numChannels * 2)
      \o writeString(<< "W", "A", "V", "E" >>)
      \o writeString(<< "f", "m", "t", " " >>)
      \o setUint32(16)
      \o setUint16(1)
      \o setUint16(numChannels)
      \o setUint32(sampleRate)
      \o setUint32(sampleRate * numChannels * 2)
      \o setUint16(blockAlign(numChannels))
      \o setUint16(16)
      \o writeString(<< "d", "a", "t", "a" >>)
      \o setUint32(length * numChannels * 2)

\* the interleaving loops: frame by frame, channel by channel
RECURSIVE interleave(_, _, _)
interleave(buf, i, c) ==
    IF i > buf.length THEN << >>
    ELSE IF c > buf.numberOfChannels THEN interleave(buf, i + 1, 1)
    ELSE sampleBytes(buf.channels[c][i]) \o interleave(buf, i, c + 1)

\* new ArrayBuffer(length) is zero-filled; the writes fill it from offset 0
toneAudioBufferToWav(buf) ==
    LET numChannels == buf.numberOfChannels
        length      == buf.length * numChannels * 2 + 44
        written     == wavHeader(numChannels, buf.length, buf.sampleRate)
                         \o interleave(buf, 1, 1)
    IN  [k \in 1..length |-> IF k <= Len(written) THEN written[k] ELSE 0]

-----------------------------------------------------------------------------
(* Initial state: init() has run in a browser whose localStorage is empty *)

defaultTuning == [min |-> minTimeBetweenNotes, max |-> maxTimeBetweenNotes]

\* everything but the buffer an export renders
initPage ==
    /\ events = << >>
    /\ letters = << >>
    /\ shown = << >>
    /\ caret = freshCaret
    /\ measurer = "none"
    /\ theme = "classic"
    /\ font = "Pacifico"
    /\ paletteSel = "majorC"
    /\ keyToNote = "majorC"
    /\ align = "left"
    /\ welcomeShown = TRUE
    /\ storage = persistToStorage("classic", "Pacifico", "majorC", << >>)
    /\ loaded = noDoc
    /\ imported = noDoc
    /\ now = 0
    /\ timers = {}
    /\ scheduledTimeout = 0
    /\ lastKeyAt = 0
    /\ synth = 0
    /\ audioQueue = << >>
    /\ tuning = defaultTuning
    /\ playhead = "kitten"
    /\ transport = [state |-> "stopped", position |-> -1]
    /\ parts = << >>
    /\ tl = noTimeline
    /\ runs = 0
    /\ fired = << >>
    /\ runTriggers = << >>
    /\ lastOp = "init"
    /\ resumed = noContinuation
    /\ width = normalWidth
    /\ unhandled = FALSE
    /\ origin = "typed"
    /\ wav = << >>

Init == initPage /\ toneBuffer = noBuffer

-----------------------------------------------------------------------------
(* Actions: one per handler or callback *)

\* time passes
Tick(dt, until) ==
    /\ now + dt <= until
    /\ now' = now + dt
    /\ fired' = << >>
    /\ lastOp' = "tick"
    /\ resumed' = noContinuation
    /\ UNCHANGED << width, unhandled >> /\ UNCHANGED wavVars
    /\ UNCHANGED << editVars, timerVars, audioVars, confVars, playVars >>

\* the window is resized and the container with it; the page listens only to
\* rebuild the physics grounds, the letters stay where they are
resize(w) ==
    /\ width' = w
    /\ UNCHANGED unhandled /\ UNCHANGED wavVars
    /\ fired' = << >>
    /\ lastOp' = "resize"
    /\ resumed' = noContinuation
    /\ UNCHANGED << editVars, now, timerVars, audioVars, confVars, playVars >>

\* handleKeyDown, Backspace / Delete branch: deleteLast(); scheduleInactivityPlayback()
KeyDelete ==
    /\ IF Len(events) = 0
       THEN UNCHANGED << events, letters, shown, measurer, storage >>
       ELSE LET spans == deleteLastSpans(events, letters)
                r == reflowExistingLetters(measurer, font, popEvent(events), align,
                                           shown, Len(spans))
            IN  /\ letters' = spans
                /\ events' = popEvent(events)
                /\ storage' = persistToStorage(theme, font, paletteSel, popEvent(events))
                /\ shown' = r.shown
                /\ measurer' = r.measurer
    /\ scheduleInactivityPlayback
    /\ welcomeShown' = FALSE
    /\ loaded' = noDoc /\ imported' = noDoc
    /\ fired' = << >>
    /\ lastOp' = "deleteLast"
    /\ resumed' = noContinuation
    /\ UNCHANGED << width, unhandled >> /\ UNCHANGED wavVars
    /\ origin' = (IF origin = "typed" THEN "typed" ELSE "other")
    /\ UNCHANGED << caret, theme, font, paletteSel, keyToNote, align, now,
                    audioVars, confVars, playVars >>

\* handleKeyDown, a key that types nothing (Shift, arrows): if (!char) return
KeyIgnored ==
    /\ welcomeShown' = FALSE
    /\ fired' = << >>
    /\ lastOp' = "ignored"
    /\ resumed' = noContinuation
    /\ UNCHANGED << width, unhandled >> /\ UNCHANGED wavVars
    /\ UNCHANGED << origin, events, letters, shown, caret, measurer, theme, font, paletteSel, keyToNote,
                    align, storage, loaded, imported, now, timerVars, audioVars,
                    confVars, playVars >>

\* handleKeyDown, a key that types char
KeyChar(char) ==
    LET lower == toLowerCase(char)
        note  == buildKeyToNote(keyToNote, lower)
        evs1  == recordEvent(events, char, note, [x |-> 0, y |-> 0], now)
        positions == layoutEventsAligned(measurer, font, evs1, align)
        spans == IF char # "\n" THEN Append(letters, char) ELSE letters
    IN  /\ Len(events) < MaxEvents
        /\ synth = 0 => Len(audioQueue) < MaxPending
        \* ensureAudio().then(() => playNote(note))
        /\ IF synth # 0
           THEN /\ fired' = playNote(synth, "key", 0, 0, note)
                /\ UNCHANGED audioVars
           ELSE /\ audioQueue' = Append(audioQueue, keyContinuation(note))
                /\ fired' = << >>
                /\ UNCHANGED synth
        /\ storage' = persistToStorage(theme, font, paletteSel, evs1)
        /\ letters' = spans
        /\ shown' = placeSpans(shown, Len(spans), positions)
        /\ measurer' = afterLayout(measurer, evs1)
        /\ events' = updatePositions(evs1, spans, positions)
        /\ scheduleInactivityPlayback
        /\ welcomeShown' = FALSE
        /\ loaded' = noDoc /\ imported' = noDoc
        /\ lastOp' = "keyChar"
        /\ resumed' = noContinuation
        /\ UNCHANGED << width, unhandled >> /\ UNCHANGED wavVars
        /\ origin' = (IF origin = "typed" THEN "typed" ELSE "other")
        /\ UNCHANGED << caret, theme, font, paletteSel, keyToNote, align, now,
                        confVars, playVars >>

\* handleKeyDown(ev)
handleKeyDown(key) ==
    IF key \in {"Backspace", "Delete"} THEN KeyDelete
    ELSE IF keyChar(key) = "" THEN KeyIgnored
    ELSE KeyChar(keyChar(key))

\* clearAll (the Clear button)
clearAll ==
    /\ events' = << >>
    /\ letters' = << >>
    /\ shown' = << >>
    /\ measurer' = afterEmptying(measurer)
    /\ caret' = [caret EXCEPT !.measurer = FALSE, !.x = 0, !.y = 0]
    /\ welcomeShown' = TRUE
    /\ storage' = persistToStorage(theme, font, paletteSel, << >>)
    /\ loaded' = noDoc /\ imported' = noDoc
    /\ fired' = << >>
    /\ lastOp' = "clearAll"
    /\ resumed' = noContinuation
    /\ UNCHANGED << width, unhandled >> /\ UNCHANGED wavVars
    /\ origin' = "typed"
    /\ UNCHANGED << theme, font, paletteSel, keyToNote, align, now, timerVars,
                    audioVars, confVars, playVars >>

\* setAlign(al) (the alignSelect control)
setAlign(al) ==
    LET r == reflowExistingLetters(measurer, font, events, al, shown, Len(letters))
    IN  /\ align' = al
        /\ shown' = r.shown
        /\ measurer' = r.measurer
        /\ storage' = persistToStorage(theme, font, paletteSel, events)
        /\ loaded' = noDoc /\ imported' = noDoc
        /\ fired' = << >>
        /\ lastOp' = "setAlign"
        /\ resumed' = noContinuation
        /\ UNCHANGED << width, unhandled >> /\ UNCHANGED wavVars
        /\ origin' = "other"
        /\ UNCHANGED << events, letters, caret, theme, font, paletteSel, keyToNote,
                        welcomeShown, now, timerVars, audioVars, confVars, playVars >>

\* setFont(fontFamily) (the fontSelect control)
setFont(fontFamily) ==
    LET f == ResolveFont(fontFamily)
        r == reflowExistingLetters(measurer, f, events, align, shown, Len(letters))
    IN  /\ font' = f
        /\ caret' = [caret EXCEPT !.measurer = FALSE]
        /\ shown' = r.shown
        /\ measurer' = r.measurer
        /\ storage' = persistToStorage(theme, f, paletteSel, events)
        /\ loaded' = noDoc /\ imported' = noDoc
        /\ fired' = << >>
        /\ lastOp' = "setFont"
        /\ resumed' = noContinuation
        /\ UNCHANGED << width, unhandled >> /\ UNCHANGED wavVars
        /\ origin' = "other"
        /\ UNCHANGED << events, letters, theme, paletteSel, keyToNote, align,
                        welcomeShown, now, timerVars, audioVars, confVars, playVars >>

\* handleImportJson: reader.onload for a document doc; exported tells whether
\* doc is the export of the current state
handleImportJson(doc, exported) ==
    LET hasTheme == Truthy(doc.theme)
        th1 == IF hasTheme THEN doc.theme ELSE theme
        f1  == IF hasTheme THEN ResolveFont(themes(doc.theme).fontFamily) ELSE font
        pal1 == IF hasTheme THEN themes(doc.theme).soundPalette ELSE paletteSel
        k1  == IF hasTheme THEN themes(doc.theme).soundPalette ELSE keyToNote
        f2  == IF Truthy(doc.font) THEN ResolveFont(doc.font) ELSE f1
        pal2 == IF Truthy(doc.palette) THEN doc.palette ELSE pal1
        k2  == IF Truthy(doc.palette) THEN doc.palette ELSE k1
        c1  == [caret EXCEPT !.measurer = FALSE, !.x = 0, !.y = 0]
        list == doc.events
        r   == rebuildLoop(list, 1, f2, now, c1, << >>, << >>)
    IN  /\ theme' = th1
        /\ font' = f2
        /\ paletteSel' = pal2
        /\ keyToNote' = k2
        /\ events' = r.events
        /\ letters' = r.letters
        /\ shown' = spanPositions(r.events)
        /\ measurer' = afterEmptying(measurer)
        /\ caret' = r.caret
        /\ welcomeShown' = TRUE
        /\ storage' = persistToStorage(th1, f2, pal2, r.events)
        /\ imported' = doc
        /\ loaded' = noDoc
        /\ fired' = << >>
        /\ lastOp' = "import"
        /\ resumed' = noContinuation
        /\ UNCHANGED << width, unhandled >> /\ UNCHANGED wavVars
        /\ origin' = (IF Len(r.events) = 0 THEN "typed"
                      ELSE IF exported /\ origin = "typed" THEN "exported"
                      ELSE "other")
        /\ UNCHANGED << align, now, timerVars, audioVars, confVars, playVars >>

\* the page is loaded again: init() with restoreFromStorage on a fresh state
restoreFromStorage ==
    LET blob == storage
        hasTheme == Truthy(blob.theme)
        th1 == IF hasTheme THEN blob.theme ELSE "classic"
        f1  == IF hasTheme THEN ResolveFont(themes(blob.theme).fontFamily)
               ELSE "Playfair Display"
        pal1 == IF hasTheme THEN themes(blob.theme).soundPalette ELSE "majorC"
        f2  == IF Truthy(blob.font) THEN ResolveFont(stripQuotes(blob.font))
               ELSE f1
        pal2 == IF Truthy(blob.palette) THEN blob.palette ELSE pal1
        list == blob.events
        r   == rebuildLoop(list, 1, f2, 0, freshCaret, << >>, << >>)
        \* init: if (state.events.length === 0) setFont('Pacifico')
        f3  == IF Len(r.events) = 0 THEN "Pacifico" ELSE f2
    IN  /\ theme' = th1
        /\ font' = f3
        /\ paletteSel' = pal2
        /\ keyToNote' = pal2
        /\ events' = r.events
        /\ letters' = r.letters
        /\ shown' = spanPositions(r.events)
        /\ measurer' = "none"
        \* init: initializeCursor(container)
        /\ caret' = [r.caret EXCEPT !.x = 0, !.y = 0]
        /\ align' = "left"
        /\ welcomeShown' = TRUE
        /\ storage' = persistToStorage(th1, f3, pal2, r.events)
        /\ loaded' = blob
        /\ imported' = noDoc
        /\ now' = 0
        /\ timers' = {} /\ scheduledTimeout' = 0 /\ lastKeyAt' = 0
        /\ synth' = 0 /\ audioQueue' = << >>
        /\ tuning' = defaultTuning /\ playhead' = "kitten"
        /\ transport' = [state |-> "stopped", position |-> -1]
        /\ parts' = << >> /\ tl' = noTimeline /\ runs' = 0 /\ runTriggers' = << >>
        /\ fired' = << >>
        /\ lastOp' = "restore"
        /\ resumed' = noContinuation
        /\ UNCHANGED width /\ unhandled' = FALSE /\ UNCHANGED wavVars
        /\ origin' = (IF Len(r.events) = 0 THEN "typed" ELSE "other")

\* variant of thenTriggers in which only the newest resumed callback runs
thenTriggersNewest(batch, sy) ==
    IF Len(batch) = 0 \/ batch[Len(batch)].kind # "key" THEN << >>
    ELSE playNote(sy, "key", 0, 0, batch[Len(batch)].note)

\* the notes the .then(() => playNote(note)) callbacks of the resumed
\* keystrokes trigger, in the order the keys were typed
RECURSIVE thenTriggers(_, _)
thenTriggers(batch, sy) ==
    IF Len(batch) = 0 THEN << >>
    ELSE (IF Head(batch).kind = "key"
          THEN playNote(sy, "key", 0, 0, Head(batch).note) ELSE << >>)
         \o thenTriggers(Tail(batch), sy)

\* Tone.start() resolves for the k oldest suspended ensureAudio calls in one
\* task. Each resumed call runs configureSynthForTheme(state.theme), which
\* disposes the synth before it and makes a new one, so state.synth is the
\* newest of them when the callers run; the callers' continuations are later
\* microtasks of the same task. A suspended playSequence is taken as the last
\* of its batch.
AudioResume ==
    \E k \in 1..Len(audioQueue) :
        LET batch == SubSeq(audioQueue, 1, k)
        IN  /\ \A i \in 1..(k - 1) : batch[i].kind = "key"
            /\ synth' = synth + k
            /\ audioQueue' = SubSeq(audioQueue, k + 1, Len(audioQueue))
            /\ fired' = thenTriggers(batch, synth + k)
            /\ IF batch[k].kind = "play"
               THEN PlayBody(batch[k].seen)
               ELSE UNCHANGED << events, playVars >>
            /\ lastOp' = "audioResume"
            /\ resumed' = batch[k]
            /\ UNCHANGED << width, unhandled >> /\ UNCHANGED wavVars
            /\ UNCHANGED << sheetVars, now, timerVars, confVars >>

\* Tone.start() rejects for the oldest suspended ensureAudio call: the await
\* throws, ensureAudio's promise rejects and so does what awaited it, the
\* .then(() => playNote(note)) of a keystroke or the playSequence call, without
\* running; no synth is made
AudioReject ==
    /\ Len(audioQueue) > 0
    /\ audioQueue' = Tail(audioQueue)
    /\ unhandled' = (unhandled \/ ~Head(audioQueue).handled) /\ UNCHANGED wavVars
    /\ fired' = << >>
    /\ lastOp' = "audioReject"
    /\ resumed' = Head(audioQueue)
    /\ UNCHANGED << width, synth, editVars, now, timerVars, confVars, playVars >>

\* the Play button: playSequence()
PlayButton ==
    /\ runs + pendingPlays < MaxRuns
    /\ synth = 0 => Len(audioQueue) < MaxPending
    /\ playSequence(FALSE)
    /\ fired' = << >>
    /\ lastOp' = "play"
    /\ resumed' = noContinuation
    /\ UNCHANGED << width, unhandled >> /\ UNCHANGED wavVars
    /\ UNCHANGED << sheetVars, now, timerVars, confVars >>

\* the inactivity timer's callback runs
TimerFire ==
    \E t \in timers :
        /\ now >= t.due
        /\ runs + pendingPlays < MaxRuns
        /\ synth = 0 => Len(audioQueue) < MaxPending
        /\ timers' = timers \ {t}
        /\ playSequence(TRUE)
        /\ fired' = << >>
        /\ lastOp' = "timer"
        /\ resumed' = noContinuation
        /\ UNCHANGED << width, unhandled >> /\ UNCHANGED wavVars
        /\ UNCHANGED << sheetVars, now, scheduledTimeout, lastKeyAt, confVars >>

\* the transport times at which some Part has an entry
partTimes(ps) ==
    UNION {{ps[p].entries[k].t : k \in 1..Len(ps[p].entries)} : p \in 1..Len(ps)}

\* the Part callback for the entries of one Part at transport time t:
\*   if (value.note) state.synth?.triggerAttackRelease(value.note, 0.22, time)
partTriggers(part, t, sy) ==
    LET es == SelectSeq(part.entries, LAMBDA e : e.t = t /\ Truthy(e.note) /\ sy # 0)
    IN  [k \in 1..Len(es) |-> Trigger(sy, "part", part.run, es[k].index, es[k].note)]

RECURSIVE transportTriggers(_, _, _, _)
\* the callbacks of all Parts at transport time t, in the order the Parts were made
transportTriggers(ps, p, t, sy) ==
    IF p > Len(ps) THEN << >>
    ELSE partTriggers(ps[p], t, sy) \o transportTriggers(ps, p + 1, t, sy)

\* the started transport reaches the next time at which a Part has entries
TransportAdvance ==
    LET later == {t \in partTimes(parts) : t > transport.position}
        t == CHOOSE m \in later : \A o \in later : m <= o
    IN  /\ transport.state = "started"
        /\ later # {}
        /\ transport' = [transport EXCEPT !.position = t]
        /\ fired' = transportTriggers(parts, 1, t, synth)
        /\ runTriggers' = countTriggers(runTriggers, fired', runs)
        /\ lastOp' = "transport"
        /\ resumed' = noContinuation
        /\ UNCHANGED << width, unhandled >> /\ UNCHANGED wavVars
        /\ UNCHANGED << editVars, now, timerVars, audioVars, confVars, parts, tl, runs >>

\* the timeline's next callback: onStart of the first segment plays note 0,
\* onComplete of segment i plays note i + 1 (playNoteAtIndex)
TimelineStep ==
    /\ tl # noTimeline
    /\ tl.n >= 2
    /\ tl.step < tl.n
    /\ LET idx  == tl.step
           note == IF idx + 1 <= Len(tl.notes) THEN tl.notes[idx + 1] ELSE UNDEFINED
       IN  fired' = playNote(synth, "tl", tl.run, idx, note)
    /\ runTriggers' = countTriggers(runTriggers, fired', runs)
    /\ tl' = [tl EXCEPT !.step = tl.step + 1]
    /\ lastOp' = "timeline"
    /\ resumed' = noContinuation
    /\ UNCHANGED << width, unhandled >> /\ UNCHANGED wavVars
    /\ UNCHANGED << editVars, now, timerVars, audioVars, confVars, transport, parts, runs >>

\* the timingRange slider: factor = f10 / 10
SetTiming(f10) ==
    /\ tuning' = [min |-> (minTimeBetweenNotes * f10) \div 10,
                  max |-> (maxTimeBetweenNotes * f10) \div 10]
    /\ fired' = << >>
    /\ lastOp' = "timingRange"
    /\ resumed' = noContinuation
    /\ UNCHANGED << width, unhandled >> /\ UNCHANGED wavVars
    /\ UNCHANGED << editVars, now, timerVars, audioVars, playhead, playVars >>

\* setPlayheadStyle(style)
setPlayheadStyle(style) ==
    /\ playhead' = style
    /\ fired' = << >>
    /\ lastOp' = "playheadStyle"
    /\ resumed' = noContinuation
    /\ UNCHANGED << width, unhandled >> /\ UNCHANGED wavVars
    /\ UNCHANGED << editVars, now, timerVars, audioVars, tuning, playVars >>

-----------------------------------------------------------------------------
(* Specifications *)

Keys == {"a", "Enter", "Backspace"}

\* documents offered to import besides the export of the current state
wellFormedDoc ==
    [theme |-> "midnight", font |-> "Poppins serif", palette |-> "minorA",
     events |-> << [char |-> "a", note |-> "A3", time |-> 700, x |-> 0, y |-> 0],
                   [char |-> " ", note |-> NULL, time |-> 800, x |-> 11, y |-> 0],
                   [char |-> "\n", note |-> NULL, time |-> 900, x |-> 0, y |-> 0],
                   [char |-> "b", note |-> "B3", time |-> 1000, x |-> 0, y |-> 28] >>]

\* a document whose events hold a null entry, and no theme, font or palette
nullEntryDoc ==
    [theme |-> UNDEFINED, font |-> UNDEFINED, palette |-> UNDEFINED,
     events |-> << [char |-> "a", note |-> "C4", time |-> 0, x |-> 0, y |-> 0],
                   nullEntry,
                   [char |-> "b", note |-> "D4", time |-> 100, x |-> 11, y |-> 0] >>]

\* a document with an entry that has no character
noCharDoc ==
    [theme |-> UNDEFINED, font |-> UNDEFINED, palette |-> UNDEFINED,
     events |-> << [char |-> UNDEFINED, note |-> UNDEFINED, time |-> 0, x |-> 0, y |-> 0],
                   [char |-> "b", note |-> "D4", time |-> 100, x |-> 11, y |-> 0] >>]

ImportDocs == {wellFormedDoc, nullEntryDoc, noCharDoc}

\* the Event Log, persistence and import; Tone.start() resolves before the
\* next input arrives
Next ==
    \/ AudioResume
    \/ /\ audioQueue = << >>
       /\ \/ Tick(100, 100)
          \/ \E key \in Keys : handleKeyDown(key)
          \/ clearAll
          \/ handleImportJson(exportAsJson(theme, font, paletteSel, events), TRUE)
          \/ \E doc \in ImportDocs : handleImportJson(doc, FALSE)
          \/ restoreFromStorage

Spec == Init /\ [][Next]_vars

\* the inactivity timer
TimerKeys == {"a", "Backspace", "Shift"}

NextTimer ==
    \/ Tick(100, 100)
    \/ Tick(2500, Horizon)
    \/ \E key \in TimerKeys : handleKeyDown(key)
    \/ TimerFire
    \/ AudioResume
    \/ TransportAdvance
    \/ TimelineStep
    \/ setPlayheadStyle("classic")

SpecTimer == Init /\ [][NextTimer]_vars

\* the playback engine; Tone.start() resolves before the next key, tick or
\* transport event, while Play and the timer may come before it
PlayKeys == {"a", "Enter"}

NextPlay ==
    \/ AudioResume
    \/ PlayButton
    \/ TimerFire
    \/ /\ audioQueue = << >>
       /\ \/ Tick(2500, Horizon)
          \/ \E key \in PlayKeys : handleKeyDown(key)
          \/ TransportAdvance
          \/ TimelineStep
          \/ SetTiming(20)

SpecPlay == Init /\ [][NextPlay]_vars

\* typing, reflow and the layout engine; Tone.start() resolves before the next
\* input arrives
LayoutKeys == {"a", "A", "Enter", "Backspace"}
AlignModes == {"left", "center", "right", "justify"}

NextLayout ==
    \/ AudioResume
    \/ /\ audioQueue = << >>
       /\ \/ \E key \in LayoutKeys : handleKeyDown(key)
          \/ \E al \in AlignModes : setAlign(al)
          \/ setFont("Poppins")
          \/ clearAll

SpecLayout == Init /\ [][NextLayout]_vars

\* the audio start: keys before and after Tone.start() resolves, which it does
\* some time after the first user gesture
AudioKeys == {"a", "b", "Enter", "Backspace"}

NextAudio ==
    \/ \E key \in AudioKeys : handleKeyDown(key)
    \/ AudioResume

SpecAudio == Init /\ [][NextAudio]_vars /\ WF_vars(AudioResume)

\* the container's width changes, down to nothing
ResizeKeys == {"a", "Enter", "Backspace"}
Widths == {0, normalWidth}

NextResize ==
    \/ \E key \in ResizeKeys : handleKeyDown(key)
    \/ \E w \in Widths : resize(w)
    \/ restoreFromStorage
    \/ AudioResume

SpecResize == Init /\ [][NextResize]_vars

\* the key mapping under each palette name a document can carry
PaletteKeys == {"b", "i", "A", " ", "Enter", "1"}
PaletteNames == {"majorC", "minorA", "pentatonicC", "bluesC", "constructor"}

paletteDoc(p) ==
    [theme |-> UNDEFINED, font |-> UNDEFINED, palette |-> p, events |-> << >>]

NextPalette ==
    \/ \E key \in PaletteKeys : handleKeyDown(key)
    \/ \E p \in PaletteNames : handleImportJson(paletteDoc(p), FALSE)
    \/ AudioResume

SpecPalette == Init /\ [][NextPalette]_vars

\* the audio start fails
RejectKeys == {"a", "Backspace"}

NextReject ==
    \/ Tick(2500, Horizon)
    \/ \E key \in RejectKeys : handleKeyDown(key)
    \/ PlayButton
    \/ TimerFire
    \/ AudioResume
    \/ AudioReject

SpecReject == Init /\ [][NextReject]_vars

\* playback under each playhead style
StyleKeys == {"a"}
Styles == {"classic", "comet", "star", "heart", "flame", "kitten", "diamond"}

NextStyle ==
    \/ \E key \in StyleKeys : handleKeyDown(key)
    \/ \E style \in Styles : setPlayheadStyle(style)
    \/ PlayButton
    \/ AudioResume

SpecStyle == Init /\ [][NextStyle]_vars

\* Play before the audio start: the page loaded again restores the log
\* without a synth
ReloadKeys == {"a", "Backspace"}

NextReload ==
    \/ \E key \in ReloadKeys : handleKeyDown(key)
    \/ PlayButton
    \/ AudioResume
    \/ restoreFromStorage

SpecReload == Init /\ [][NextReload]_vars

-----------------------------------------------------------------------------
(* Claims about playback (under SpecPlay) and the inactivity timer (under SpecTimer) *)

\* C1: whenever playSequence schedules a Part, its smoothed schedule starts at 0,
\* every gap between consecutive entries lies in [minTimeBetweenNotes,
\* maxTimeBetweenNotes] as tuned at that moment, the times are strictly
\* increasing, and two letters under the default tuning give t[1] in [80, 2000] ms.
C1_SmoothedSchedule ==
    [][Len(parts') = Len(parts) + 1 =>
          LET es == parts'[Len(parts')].entries
          IN  /\ es[1].t = 0
              /\ \A i \in 1..(Len(es) - 1) :
                     /\ tuning.min <= es[i + 1].t - es[i].t
                     /\ es[i + 1].t - es[i].t <= tuning.max
              /\ \A i, j \in 1..Len(es) : i < j => es[i].t < es[j].t
              /\ (tuning = defaultTuning /\ Len(es) = 2) =>
                     es[2].t \in minTimeBetweenNotes..maxTimeBetweenNotes]_vars

\* C1 witness: a scheduled run of three notes typed at 0, 0 and 2500 ms: one gap
\* was raised to the minimum and one cut to the maximum
C1_Witness ==
    \E p \in 1..Len(parts) :
        /\ Len(parts[p].entries) = 3
        /\ Len(events) = 3
        /\ events[2].time - events[1].time < minTimeBetweenNotes
        /\ events[3].time - events[2].time > maxTimeBetweenNotes
        /\ parts[p].entries[2].t - parts[p].entries[1].t = minTimeBetweenNotes
        /\ parts[p].entries[3].t - parts[p].entries[2].t = maxTimeBetweenNotes

\* C2 (as claimed): after a restart only note triggers created by the newest run
\* fire.
C2_OnlyNewestRunFires ==
    \A k \in 1..Len(fired) :
        fired[k].via \in {"part", "tl"} => fired[k].run = runs

\* C3 (as claimed): within a run no schedule entry's note is triggered twice, so
\* a run over n note-bearing events issues n triggers.
C3_OneTriggerPerEntry ==
    \A i \in DOMAIN runTriggers : runTriggers[i] <= 1

\* C4 (as claimed): in a run the marker arrives at position i, after the
\* durations of segments 0..i-1, at the smoothed time t_i of note i.
C4_MarkerOnSchedule ==
    (tl # noTimeline /\ Len(parts) > 0) =>
        LET es == parts[Len(parts)].entries
        IN  \A i \in 1..Len(tl.segs) :
                SumSeq(SubSeq(tl.segs, 1, i)) = es[i + 1].t * tl.den

\* C5: at most one inactivity timer is pending; a keystroke that types or deletes
\* leaves exactly one timer, due inactivityMs from now; and the timer's callback
\* runs only when inactivityMs has passed since the last such keystroke.
C5_Debounce ==
    /\ [](Cardinality(timers) <= 1)
    /\ [][lastOp' \in {"keyChar", "deleteLast"} =>
            timers' = {[id |-> scheduledTimeout', due |-> now + inactivityMs]}]_vars
    /\ [](lastOp = "timer" => now - lastKeyAt >= inactivityMs)

\* C5 witness: a second keystroke at 100 ms replaced the timer of the first, and
\* the callback ran inactivityMs after it
C5_Witness ==
    /\ lastOp = "timer" /\ timers = {}
    /\ lastKeyAt = 100 /\ now = lastKeyAt + inactivityMs
    /\ Len(events) = 2 /\ events[1].time = 0

-----------------------------------------------------------------------------
(* Claims about the Event Log, persistence and import (under Spec) *)

nonNewline(e) == e.char # "\n"

\* two event lists agree on character and note, entry by entry
sameCharsAndNotes(a, b) ==
    /\ Len(a) = Len(b)
    /\ \A i \in 1..Len(a) : a[i].char = b[i].char /\ a[i].note = b[i].note

\* two event lists agree on timestamps, entry by entry
sameTimes(a, b) ==
    /\ Len(a) = Len(b)
    /\ \A i \in 1..Len(a) : a[i].time = b[i].time

\* C6 (as claimed): after restoreFromStorage loads the blob persistToStorage wrote
\* for a log L, the log has L's length and order and every event has L's
\* character, note and timestamp.
C6_RestoreRoundTrip ==
    lastOp = "restore" =>
        sameCharsAndNotes(events, loaded.events) /\ sameTimes(events, loaded.events)

\* C7 (as claimed): importing the export of a log typed under left alignment gives
\* the same characters and notes, and every glyph the position typing had given it.
C7_ExportImportPositions ==
    (lastOp = "import" /\ origin = "exported") =>
        /\ sameCharsAndNotes(events, imported.events)
        /\ \A i \in 1..Len(events) :
              nonNewline(events[i]) =>
                  /\ events[i].x = imported.events[i].x
                  /\ events[i].y = imported.events[i].y

\* a document every entry of which is an object with a character
wellFormed(doc) ==
    \A i \in 1..Len(doc.events) :
        ~isNullEntry(doc.events[i]) /\ Truthy(doc.events[i].char)

\* C8: after handleImportJson of a well-formed document the log holds exactly the
\* document's events (character and note) in their order, nothing else, and the
\* import issued no note trigger.
C8_ImportReplaces ==
    (lastOp = "import" /\ wellFormed(imported)) =>
        sameCharsAndNotes(events, imported.events) /\ fired = << >>

\* C8 witness: a four-event document was imported while the synth exists
C8_Witness ==
    lastOp = "import" /\ imported = wellFormedDoc /\ synth # 0 /\ Len(events) = 4

interpretable(e) == ~isNullEntry(e) /\ Truthy(e.char)

\* C9 (as claimed): a load skips the entries it cannot interpret and loads every
\* interpretable entry, those after a bad one included; missing optional fields
\* leave the defaults.
C9_SkipsBadEntries ==
    /\ lastOp = "import" =>
          sameCharsAndNotes(events, SelectSeq(imported.events, interpretable))
    /\ lastOp = "restore" =>
          sameCharsAndNotes(events, SelectSeq(loaded.events, interpretable))

\* C10: deleteLast pops exactly the last event, removes one glyph exactly when
\* that event is no newline, and does nothing on an empty log; the number of
\* glyphs always equals the number of non-newline events.
C10_DeleteLast ==
    /\ [](Len(letters) = Len(SelectSeq(events, nonNewline)))
    /\ [][lastOp' = "deleteLast" =>
            IF Len(events) = 0
            THEN events' = events /\ letters' = letters
            ELSE /\ events' = SubSeq(events, 1, Len(events) - 1)
                 /\ Len(letters') =
                      Len(letters) - (IF events[Len(events)].char # "\n" THEN 1 ELSE 0)
                 /\ letters' = SubSeq(letters, 1, Len(letters'))]_vars

\* C10 witness: "abc" -> "ab": a delete left two events and two glyphs
C10_Witness ==
    lastOp = "deleteLast" /\ Len(events) = 2 /\ Len(letters) = 2

-----------------------------------------------------------------------------
(* Claims about the log's timestamps and positions *)

\* C11: the timestamps of the events in the log are non-decreasing in log order
\* after any sequence of keystrokes, deletes, clear, restore and import.
C11_TimesNonDecreasing ==
    \A i, j \in 1..Len(events) : i < j => events[i].time <= events[j].time

\* C11 witness: three typed events, the first two at different clock times and
\* one at the present time
C11_Witness ==
    /\ lastOp = "keyChar" /\ Len(events) = 3
    /\ events[1].time < events[2].time
    /\ Len(SelectSeq(events, LAMBDA e : e.time = now)) >= 1

-----------------------------------------------------------------------------
(* Claims about playSequence and the audio start *)

\* C13: playSequence never mutates the Event Log: no step of a playback (the
\* button, the inactivity timer, the resumed continuation, the Transport and
\* the timeline) changes an event, so the stored times are the same before
\* and after a run.
C13_PlaybackKeepsLog ==
    [][lastOp' \in {"play", "timer", "audioResume", "transport", "timeline"}
          => events' = events]_vars

\* C13 witness: the last step started a run whose schedule was smoothed (one
\* gap raised to the minimum, one cut to the maximum) and the log still holds
\* the raw times
C13_Witness ==
    /\ lastOp \in {"play", "timer", "audioResume"}
    /\ runs > 0 /\ Len(parts) = runs /\ transport.position = -1
    /\ Len(events) = 3
    /\ events[2].time - events[1].time < tuning.min
    /\ events[3].time - events[2].time > tuning.max
    /\ LET es == parts[Len(parts)].entries
       IN  /\ Len(es) = 3
           /\ es[2].t - es[1].t = tuning.min
           /\ es[3].t - es[2].t = tuning.max

\* C14: when the log has no note-bearing event, playSequence and the inactivity
\* timer's callback do nothing: no Part is made, no timeline, no trigger, the
\* Transport is left as it was and no audio start is awaited.
C14_NothingToPlay ==
    [][(lastOp' \in {"play", "timer"} /\ Len(SelectSeq(events, hasNote)) = 0)
          => /\ UNCHANGED << events, parts, tl, transport, runs, runTriggers,
                             audioQueue, synth >>
             /\ fired' = << >>]_vars

\* C14 witness: the inactivity timer fired over a log that holds only newlines
C14_Witness ==
    /\ lastOp = "timer"
    /\ Len(events) > 0
    /\ Len(SelectSeq(events, hasNote)) = 0
    /\ parts = << >> /\ audioQueue = << >> /\ transport.state = "stopped"

\* C15: no keystroke's note is lost to the audio start. A key typed while no
\* synth exists fires nothing and suspends one continuation holding its note;
\* suspended continuations leave the queue only by being resumed, oldest
\* first; a resumption leaves a synth in place and triggers the note of every
\* resumed keystroke exactly once, in typing order, on that synth;
\* and once the audio start completes every suspended continuation is resumed.
C15_NotesAfterAudioStart ==
    /\ [][(lastOp' = "keyChar" /\ synth = 0)
             => /\ fired' = << >>
                /\ audioQueue' = Append(audioQueue,
                                        keyContinuation(events'[Len(events')].note))]_vars
    /\ [][audioQueue' # audioQueue
             => \/ lastOp' = "audioResume"
                \/ \E c \in {audioQueue'[Len(audioQueue')]} :
                       audioQueue' = Append(audioQueue, c)]_vars
    /\ [][lastOp' = "audioResume"
             => LET k    == Len(audioQueue) - Len(audioQueue')
                    done == SelectSeq(SubSeq(audioQueue, 1, k),
                                      LAMBDA c : c.kind = "key" /\ Truthy(c.note))
                IN  /\ k >= 1
                    /\ audioQueue' = SubSeq(audioQueue, k + 1, Len(audioQueue))
                    /\ synth' # 0
                    /\ fired' = [i \in 1..Len(done) |->
                                    Trigger(synth', "key", 0, 0, done[i].note)]]_vars
    /\ (audioQueue # << >>) ~> (audioQueue = << >>)

\* C15 witness: two keys with different notes were typed before the audio
\* start completed, and the resumption triggered both, in order, on the live
\* synth
C15_Witness ==
    /\ lastOp = "audioResume"
    /\ audioQueue = << >>
    /\ Len(events) = 2 /\ Len(fired) = 2
    /\ \A i \in 1..2 : fired[i].note = events[i].note /\ fired[i].synth = synth
    /\ fired[1].note # fired[2].note

\* C16: a playSequence that was suspended in the audio start builds its
\* schedule and path from the log as it is when it resumes: the new Part holds
\* exactly the note-bearing events of that log, in order, and the path one
\* point per note-bearing non-newline event; when none remain it ends and
\* creates nothing.
C16_ScheduleFromLiveLog ==
    [][(lastOp' = "audioResume" /\ resumed'.kind = "play")
          => LET noteEvents == SelectSeq(events, hasNote)
                 points     == SelectSeq(events, isPathEvent)
             IN  IF Len(points) = 0
                 THEN /\ parts' = parts /\ runs' = runs
                      /\ tl' = noTimeline /\ events' = events
                 ELSE /\ Len(parts') = Len(parts) + 1
                      /\ tl'.n = Len(points)
                      /\ LET es == parts'[Len(parts')].entries
                         IN  /\ Len(es) = Len(noteEvents)
                             /\ \A i \in 1..Len(es) :
                                    es[i].note = noteEvents[i].note]_vars

\* C16 witness: Play was pressed over two notes, one was deleted before the
\* audio start completed, and the resumed run scheduled the one that was left
C16_Witness ==
    /\ lastOp = "audioResume"
    /\ resumed.kind = "play"
    /\ Len(SelectSeq(resumed.seen, hasNote)) = 2
    /\ Len(events) = 1
    /\ Len(parts) > 0
    /\ Len(parts[Len(parts)].entries) = 1
    /\ parts[Len(parts)].entries[1].note = events[1].note

-----------------------------------------------------------------------------
(* Claims about the layout *)

\* the index in evs of its k-th event that is no newline
glyphIndex(evs, k) ==
    CHOOSE i \in 1..Len(evs) :
        /\ evs[i].char # "\n"
        /\ Len(SelectSeq(SubSeq(evs, 1, i), LAMBDA e : e.char # "\n")) = k

\* the measured widths of the events of evs that are no newline
glyphWidths(m, f, evs) ==
    LET kept == SelectSeq(evs, LAMBDA e : e.char # "\n")
    IN  [k \in 1..Len(kept) |-> measureChar(m, f, kept[k].char)]

\* the summed width of the glyphs that positions puts on the line at y
lineTotal(positions, widths, y) ==
    SumSeq(SelectSeq([k \in 1..Len(positions) |->
                         IF positions[k].y = y THEN widths[k] ELSE 0],
                     LAMBDA w : w > 0))

\* C17: in every alignment mode no glyph of the laid out log ends right of the
\* container's width, except a glyph wider than the container, which is alone
\* on its line at x = 0; and two neighbouring glyphs are on different lines
\* only when a newline lies between them or the second would not have fitted
\* behind the first one's line.
C17_WrapCorrect ==
    \A al \in AlignModes :
        LET positions == layoutEventsAligned(measurer, font, events, al)
            widths    == glyphWidths(measurer, font, events)
        IN  /\ Len(positions) = Len(widths)
            /\ \A k \in 1..Len(positions) :
                   \/ positions[k].x + widths[k] <= rectWidth
                   \/ /\ widths[k] > rectWidth
                      /\ positions[k].x = 0
                      /\ \A j \in 1..Len(positions) :
                             j # k => positions[j].y # positions[k].y
            /\ \A k \in 1..(Len(positions) - 1) :
                   positions[k + 1].y # positions[k].y
                       => \/ \E i \in glyphIndex(events, k)..glyphIndex(events, k + 1) :
                                 events[i].char = "\n"
                          \/ lineTotal(positions, widths, positions[k].y)
                                 + widths[k + 1] > rectWidth

\* C17 witness: a typed log in which a third glyph did not fit behind two and
\* went to the next line, shown centred
C17_Witness ==
    /\ lastOp \in {"keyChar", "setAlign"}
    /\ align = "center"
    /\ Len(events) = 3 /\ Len(shown) = 3
    /\ shown = layoutEventsAligned(measurer, font, events, align)
    /\ shown[1].y = shown[2].y /\ shown[3].y > shown[2].y
    /\ shown[1].x > 0
    /\ shown[2].x + glyphWidths(measurer, font, events)[2] <= rectWidth

\* C18 (as claimed): the layout depends only on the event list, the alignment
\* mode, the font and the container's width: whatever was typed, deleted,
\* cleared or switched before, laying out the log in any mode gives the
\* positions a freshly loaded page computes for the same log, font and mode.
C18_LayoutDependsOnInputs ==
    \A al \in AlignModes :
        layoutEventsAligned(measurer, font, events, al)
            = layoutEventsAligned("none", font, events, al)

\* C19: in every mode each glyph is placed by its line's rule. With T the
\* line's summed width and W the container's: the line starts at 0 (left,
\* justify), at max(0, (W - T)/2) (center) or at max(0, W - T) (right); glyphs
\* follow each other at their widths, and under justify a line of n >= 2
\* glyphs that is not the last gets max(0, W - T)/(n - 1) added to each gap, so
\* that its last glyph ends exactly at W when T <= W; the last line and
\* single-glyph lines are placed as in left mode.
C19_LinePlacement ==
    \A al \in AlignModes :
        LET positions == layoutEventsAligned(measurer, font, events, al)
            widths    == glyphWidths(measurer, font, events)
            N         == Len(positions)
        IN  \A k \in 1..N :
                LET line   == {j \in 1..N : positions[j].y = positions[k].y}
                    first  == CHOOSE j \in line : \A i \in line : j <= i
                    final  == CHOOSE j \in line : \A i \in line : i <= j
                    n      == Cardinality(line)
                    T      == lineTotal(positions, widths, positions[k].y)
                    isLast == N \in line /\ glyphIndex(events, N) = Len(events)
                    before == SumSeq(SubSeq(widths, first, k - 1))
                    spread == al = "justify" /\ ~isLast /\ n > 1
                    startX == positions[first].x
                IN  /\ al \in {"left", "justify"} => startX = 0
                    /\ al = "center" => 2 * startX = Max(0, rectWidth - T)
                    /\ al = "right" => startX = Max(0, rectWidth - T)
                    /\ ~spread => positions[k].x = startX + before
                    /\ spread => (positions[k].x - before) * (n - 1)
                                     = (k - first) * Max(0, rectWidth - T)
                    /\ (spread /\ T <= rectWidth)
                           => positions[final].x + widths[final] = rectWidth

\* C19 witness: two glyphs and a newline shown justified: the line is not the
\* last, its second glyph is pushed right and ends at the container's edge
C19_Witness ==
    /\ lastOp \in {"keyChar", "setAlign"}
    /\ align = "justify"
    /\ Len(events) = 3 /\ events[3].char = "\n" /\ Len(shown) = 2
    /\ shown = layoutEventsAligned(measurer, font, events, align)
    /\ shown[1] = [x |-> 0, y |-> 0]
    /\ shown[2].y = 0
    /\ shown[2].x > glyphWidths(measurer, font, events)[1]
    /\ shown[2].x + glyphWidths(measurer, font, events)[2] = rectWidth

\* C20 (as claimed): in every pass that assigns positions (typing, through
\* layoutEventsAligned; restore and import, through nextCaretPosition) a
\* newline only breaks the line and each break advances y by fontSize x 1.4:
\* under left alignment the first glyph after k newlines at the beginning of
\* the log is at x = 0, y = k x lineHeight.
C20_NewlineAdvance ==
    (lastOp \in {"keyChar", "restore", "import"} /\ align = "left")
        => \A k \in 1..(Len(events) - 1) :
               (/\ \A i \in 1..k : events[i].char = "\n"
                /\ events[k + 1].char # "\n")
                   => /\ events[k + 1].x = 0
                      /\ events[k + 1].y = k * LineHeight

-----------------------------------------------------------------------------
(* Claims about degenerate input, tuning and the key mapping *)

\* C21 (as claimed): when the container's measured width is zero the layout
\* takes the width as unbounded: nothing wraps, so two neighbouring glyphs
\* with no newline between them are on the same line, in the positions
\* layoutEventsAligned computes and in those a restore records through
\* nextCaretPosition.
C21_ZeroWidthUnbounded ==
    width = 0 =>
        LET positions == layoutEventsAligned(measurer, font, events, align)
            kept      == SelectSeq(events, nonNewline)
            apart(k)  == \E i \in glyphIndex(events, k)..glyphIndex(events, k + 1) :
                             events[i].char = "\n"
        IN  \A k \in 1..(Len(kept) - 1) :
                ~apart(k) => /\ positions[k + 1].y = positions[k].y
                             /\ lastOp = "restore" => kept[k + 1].y = kept[k].y

\* C22 (as claimed): every segment of a run's timeline, under every playhead
\* style, lasts at least minSegmentSec and is travelled at no more than
\* maxPixelsPerSecond (a duration is segs[i] / den ms, a distance is in px).
C22_SegmentLimits ==
    [][runs' = runs + 1
          => LET points == buildMotionPathFromEvents(events)
             IN  \A i \in 1..Len(tl'.segs) :
                     LET dist == hypot(points[i + 1].x - points[i].x,
                                       points[i + 1].y - points[i].y)
                     IN  /\ tl'.segs[i] >= minSegmentSec * tl'.den
                         /\ dist * 1000 * tl'.den
                                <= maxPixelsPerSecond * tl'.segs[i]]_vars

\* the pool the claim gives a palette name: its own, or majorC's when the name
\* is not one of the three palettes
claimedPool(p) ==
    IF p \in {"majorC", "minorA", "pentatonicC"} THEN palettes(p) ELSE palettes("majorC")

\* C23 (as claimed): the note recorded for a keystroke is the mapping of the
\* lower-cased character under the palette name in force: pool[i mod |pool|]
\* for the letter with alphabet index i, the majorC pool for an unknown
\* palette name, and no note for space, newline and any other character.
C23_KeyToNote ==
    lastOp = "keyChar" =>
        LET e     == events[Len(events)]
            lower == toLowerCase(e.char)
            i     == letterIndex(lower)
            pool  == claimedPool(keyToNote)
        IN  /\ i >= 0 => e.note = pool[(i % Len(pool)) + 1]
            /\ i < 0 => e.note = NULL
            /\ (lower = "b" /\ keyToNote = "majorC") => e.note = "D4"

\* C24 (as claimed): a failed audio start is swallowed where ensureAudio was
\* called: after a rejection the typed key is in the log and laid out, later
\* keys are still taken, and no rejection is left without a handler.
C24_RejectionSwallowed ==
    /\ ~unhandled
    /\ lastOp = "audioReject" => synth = 0 /\ fired = << >>
    /\ (lastOp = "audioReject" /\ resumed.kind = "key" /\ origin = "typed") =>
           Len(shown) = Len(SelectSeq(events, nonNewline))

-----------------------------------------------------------------------------
(* The WAV export: the encoder applied to every small buffer *)

SampleRates  == {44100, 48000}
ChannelCounts == {1, 2}
SampleValues == {[nan |-> TRUE, milli |-> 0]}
                  \cup {[nan |-> FALSE, milli |-> m] : m \in {-1500, -250, 500, 1000}}

Buffers ==
    UNION {{[numberOfChannels |-> c, sampleRate |-> r, length |-> n, channels |-> chs] :
               chs \in [1..c -> [1..n -> SampleValues]]} :
           << c, r, n >> \in ChannelCounts \X SampleRates \X (0..MaxFrames)}

\* the offline rendering has resolved to any of the buffers
InitWav == initPage /\ toneBuffer \in Buffers

\* exportAsWav, from the resolution of the rendering on
exportAsWav ==
    /\ lastOp = "init"
    /\ wav' = toneAudioBufferToWav(toneBuffer)
    /\ lastOp' = "exportAsWav"
    /\ UNCHANGED << editVars, now, timerVars, audioVars, confVars, playVars, fired,
                    resumed, width, unhandled, toneBuffer >>

NextWav == exportAsWav

SpecWav == InitWav /\ [][NextWav]_vars

\* the number the bytes at a 0-based offset hold, low byte first
uintAt(bytes, offset, size) ==
    LET RECURSIVE value(_)
        value(k) == IF k > size THEN 0 ELSE bytes[offset + k] * (256 ^ (k - 1)) + value(k + 1)
    IN  value(1)
intAt(bytes, offset) ==
    LET u == uintAt(bytes, offset, 2) IN IF u >= 32768 THEN u - 65536 ELSE u

\* C25: the file toneAudioBufferToWav returns for a buffer of c channels, n
\* frames and rate r is 44 + 2nc bytes long, its header holds RIFF size
\* 36 + 2nc, fmt size 16, format 1, c channels, rate r, byte rate 2rc, block
\* align 2c, 16 bits and data size 2nc, and the n * c samples follow frame by
\* frame, each the clamped sample scaled into -32768..32767
C25_WavHeader ==
    lastOp = "exportAsWav" =>
        LET c == toneBuffer.numberOfChannels
            n == toneBuffer.length
            r == toneBuffer.sampleRate
        IN  /\ Len(wav) = 44 + 2 * n * c
            /\ SubSeq(wav, 1, 4) = << 82, 73, 70, 70 >>
            /\ uintAt(wav, 4, 4) = 36 + 2 * n * c
            /\ SubSeq(wav, 9, 16) = << 87, 65, 86, 69, 102, 109, 116, 32 >>
            /\ uintAt(wav, 16, 4) = 16
            /\ uintAt(wav, 20, 2) = 1
            /\ uintAt(wav, 22, 2) = c
            /\ uintAt(wav, 24, 4) = r
            /\ uintAt(wav, 28, 4) = 2 * r * c
            /\ uintAt(wav, 32, 2) = 2 * c
            /\ uintAt(wav, 34, 2) = 16
            /\ SubSeq(wav, 37, 40) = << 100, 97, 116, 97 >>
            /\ uintAt(wav, 40, 4) = 2 * n * c
            /\ \A i \in 1..n : \A ch \in 1..c :
                 LET s == toneBuffer.channels[ch][i]
                     v == intAt(wav, 44 + 2 * ((i - 1) * c + (ch - 1)))
                 IN  /\ v \in -32768..32767
                     /\ s.nan => v = 0
                     /\ (~s.nan /\ s.milli >= 1000) => v = 32767
                     /\ (~s.nan /\ s.milli <= -1000) => v = -32768
                     /\ (~s.nan /\ s.milli = 500) => v = 16383
                     /\ (~s.nan /\ s.milli = -250) => v = -8192

\* a stereo buffer of two frames has been encoded, a sample below full scale in it
C25_Witness ==
    /\ lastOp = "exportAsWav"
    /\ toneBuffer.numberOfChannels = 2
    /\ toneBuffer.length = 2
    /\ toneBuffer.channels[2][1] = [nan |-> FALSE, milli |-> -1500]
    /\ toneBuffer.channels[1][2] = [nan |-> FALSE, milli |-> -250]
    /\ Len(wav) = 52

-----------------------------------------------------------------------------
(* Claims about the cursor, the motion path and the measurer *)

\* where the layout would place a glyph typed next
nextPlacement ==
    LET evs1 == recordEvent(events, "a", NULL, [x |-> 0, y |-> 0], now)
        positions == layoutEventsAligned(afterLayout(measurer, evs1), font, evs1, align)
    IN  positions[Len(positions)]

\* C26: after every handled keystroke and every deleteLast, the cursor position
\* updateCursorPosition writes is where the next typed character will be placed
C26_CursorAtNextPlacement ==
    lastOp \in {"keyChar", "deleteLast"} => updateCursorPosition(caret) = nextPlacement

\* a document whose newline entry carries a note
notedNewlineDoc ==
    [theme |-> UNDEFINED, font |-> UNDEFINED, palette |-> UNDEFINED,
     events |-> << [char |-> "a", note |-> "C4", time |-> 0, x |-> 0, y |-> 0],
                   [char |-> "\n", note |-> "E4", time |-> 100, x |-> 0, y |-> 0],
                   [char |-> "b", note |-> "D4", time |-> 200, x |-> 0, y |-> 0] >>]

PathKeys == {"a", "Enter"}

\* playback of typed and of imported letters
NextPath ==
    \/ \E key \in PathKeys : handleKeyDown(key)
    \/ handleImportJson(notedNewlineDoc, FALSE)
    \/ PlayButton
    \/ AudioResume

SpecPath == Init /\ [][NextPath]_vars

\* C27: in every playback run the path points and the schedule entries
\* correspond one-to-one: there are as many points as entries, and the i-th
\* point is the position of the event the i-th entry plays
C27_PathMatchesSchedule ==
    [][runs' = runs + 1 =>
         LET points == buildMotionPathFromEvents(events)
             noted  == SelectSeq(events, LAMBDA e : Truthy(e.note))
         IN  /\ Len(points) = Len(tl'.notes)
             /\ \A i \in 1..Len(points) :
                  /\ points[i] = [x |-> noted[i].x + marginX, y |-> noted[i].y + marginY]
                  /\ tl'.notes[i] = noted[i].note]_vars

\* C28: after any sequence of operations, clearAll and import included, the
\* memoized measurer of measureChar is attached to the container or absent, so
\* a character measures as wide as it did before the clear
C28_MeasurerAttached ==
    /\ measurer \in {"none", "attached"}
    /\ \A ch \in {"a", "A"} : measureChar(measurer, font, ch) = measureChar("attached", font, ch)

-----------------------------------------------------------------------------
(* Palette and theme changes *)

\* variant in which a change of mapping re-derives the notes of the log
eventsAfterMappingRenoted(evs, p) ==
    [i \in 1..Len(evs) |-> [evs[i] EXCEPT !.note = buildKeyToNote(p, toLowerCase(evs[i].char))]]

\* state.events after state.keyToNote = buildKeyToNote(p): neither handler
\* touches the log
eventsAfterMapping(evs, p) == evs

\* #paletteSelect's change listener
paletteSelectChange(p) ==
    /\ keyToNote' = p
    /\ paletteSel' = p
    /\ events' = eventsAfterMapping(events, p)
    /\ storage' = persistToStorage(theme, font, p, events')
    /\ loaded' = noDoc /\ imported' = noDoc
    /\ fired' = << >>
    /\ lastOp' = "paletteSelect"
    /\ resumed' = noContinuation
    /\ UNCHANGED << width, unhandled >> /\ UNCHANGED wavVars
    /\ UNCHANGED << letters, shown, caret, measurer, theme, font, align, welcomeShown,
                    origin, now, timerVars, audioVars, confVars, playVars >>

\* setTheme(theme), from #themeSelect's change listener: setFont persists
\* before the palette selector is synced
setTheme(t) ==
    LET f == ResolveFont(themes(t).fontFamily)
        p == themes(t).soundPalette
        r == reflowExistingLetters(measurer, f, events, align, shown, Len(letters))
    IN  /\ theme' = t
        /\ font' = f
        /\ caret' = [caret EXCEPT !.measurer = FALSE]
        /\ shown' = r.shown
        /\ measurer' = r.measurer
        /\ storage' = persistToStorage(t, f, paletteSel, events)
        /\ keyToNote' = p
        /\ paletteSel' = p
        /\ events' = eventsAfterMapping(events, p)
        /\ loaded' = noDoc /\ imported' = noDoc
        /\ fired' = << >>
        /\ lastOp' = "setTheme"
        /\ resumed' = noContinuation
        /\ UNCHANGED << width, unhandled >> /\ UNCHANGED wavVars
        /\ origin' = "other"
        /\ UNCHANGED << letters, align, welcomeShown, now, timerVars, audioVars,
                        confVars, playVars >>

ThemeKeys   == {"b"}
ThemeNames  == {"classic", "midnight", "pastel"}
PaletteChoices == {"majorC", "minorA", "pentatonicC"}

NextTheme ==
    \/ AudioResume
    \/ /\ audioQueue = << >>
       /\ \/ \E key \in ThemeKeys : handleKeyDown(key)
          \/ \E p \in PaletteChoices : paletteSelectChange(p)
          \/ \E t \in ThemeNames : setTheme(t)
          \/ PlayButton

SpecTheme == Init /\ [][NextTheme]_vars

\* C29: changing the palette or the theme leaves the Event Log as it is, a later
\* keystroke gets its note from the new mapping, and a playback run plays the
\* notes recorded in the log
C29_MappingForFutureKeys ==
    [][/\ lastOp' \in {"paletteSelect", "setTheme"} => events' = events
       /\ lastOp' = "keyChar" =>
            LET e == events'[Len(events')]
            IN  e.note = buildKeyToNote(keyToNote, toLowerCase(e.char))
       /\ runs' = runs + 1 =>
            LET noted == SelectSeq(events, LAMBDA e : Truthy(e.note))
            IN  tl'.notes = [i \in 1..Len(noted) |-> noted[i].note]]_vars

\* a run has played a 'b' recorded as D4 under majorC while the mapping in
\* force gives B3, the note a 'b' typed after the change was recorded with
C29_Witness ==
    /\ runs > 0 /\ tl.run = runs
    /\ keyToNote = "minorA"
    /\ Len(events) >= 2
    /\ events[1].note = "D4" /\ events[2].note = "B3"
    /\ tl.notes = << "D4", "B3" >>

-----------------------------------------------------------------------------
(* Claims about the audio start *)

\* C30: ensureAudio initializes the synth at most once: however many calls are
\* suspended before the first Tone.start() resolves, state.synth is the first
\* synth made and none replaces it
C30_SynthMadeOnce == synth \in {0, 1}

=============================================================================
